---- MODULE Spec2Model ----
(***************************************************************************)
(* A model of fetch_cpld.py: the Dell driver-list API client with retries  *)
(* and linear backoff (call_dell_api), the row normaliser and CPLD filter  *)
(* (parse_rows, is_cpld), the latest selector (find_latest_cpld), the      *)
(* snapshot writer (write_if_changed) and the orchestrator (main).         *)
(*                                                                         *)
(* Python values are represented as follows.  A string is a TLA+ string;   *)
(* the value None in a string-typed slot is NoneVal and a key that is      *)
(* absent from a JSON object is Missing.  A date is a tuple <<y, m, d>>,   *)
(* and None in a date-typed slot is NoDate.  An optional row or payload is *)
(* a sequence of length 0 (None) or 1.  A text (file content) is a         *)
(* sequence of characters, each a string; CR and LF are the two newline    *)
(* characters.                                                             *)
(***************************************************************************)
EXTENDS Integers, Sequences, FiniteSets, TLC

VARIABLES
  api,        \* the running call_dell_api frame
  outcomes,   \* history: the HTTP outcomes of the current call_dell_api call
  sel,        \* the running find_latest_cpld frame
  seen,       \* history: CPLD rows met by find_latest_cpld, in (OS code, row) order
  lastData,   \* history: what the API Client last returned to find_latest_cpld
  queried,    \* history: OS codes handed to the API Client by find_latest_cpld
  main,       \* the running main frame
  entries,    \* history: per config entry main has begun, what its lookups gave
  file,       \* the snapshot file on disk
  wcalls,     \* history: the write_if_changed calls made, oldest first
  clock,      \* the wall clock read by datetime.now
  runs        \* history: per run of main, the file it found, its HTTP outcomes, its end

vars == <<api, outcomes, sel, seen, lastData, queried, main, entries, file, wcalls, clock, runs>>

----------------------------------------------------------------------------
(* Bounds of the model *)

MaxRetries == 3      \* largest `retries` argument tried on call_dell_api
MaxServers == 2      \* longest configuration list given to main
MaxLen == 2          \* longest content string given to write_if_changed
MaxCalls == 3        \* write_if_changed calls in one behaviour
MaxClock == 2        \* latest wall-clock reading

(* Program constants *)

DEFAULT_RETRIES == 3
DEFAULT_BACKOFF == 2
DEFAULT_OSCODES == <<"NAA", "W2022", "W2019", "WS16", "WS12R2">>
COUNTRY == "en-us"

----------------------------------------------------------------------------
(* Python values *)

NoneVal == "<None>"
Missing == "<missing>"
NoDate == <<>>
None == <<>>

Some(x) == <<x>>

\* Python truthiness of a string-typed slot, as used by `a or b`
Falsy(s) == s \in {NoneVal, Missing, ""}

Or(a, b) == IF Falsy(a) THEN b ELSE a

\* d.get(key): the value, or None when the key is absent
Get(v) == IF v = Missing THEN NoneVal ELSE v

\* d.get(key, default)
GetDefault(v, default) == IF v = Missing THEN default ELSE v

\* datetime.min.date()
MinDate == <<1, 1, 1>>

\* date comparison a > b
DateGreater(a, b) ==
  \/ a[1] > b[1]
  \/ a[1] = b[1] /\ a[2] > b[2]
  \/ a[1] = b[1] /\ a[2] = b[2] /\ a[3] > b[3]

\* datetime.strptime(s, "%d %b %Y").date(), None on any exception
parse_date(s) ==
  CASE s = "01 Jan 0001" -> <<1, 1, 1>>
    [] s = "01 Jan 2023" -> <<2023, 1, 1>>
    [] s = "10 Jan 2024" -> <<2024, 1, 10>>
    [] s = "01 Jun 2024" -> <<2024, 6, 1>>
    [] OTHER -> NoDate

\* str(date), the ISO form json.dumps(default=str) writes
IsoFormat(d) ==
  CASE d = <<1, 1, 1>> -> "0001-01-01"
    [] d = <<2023, 1, 1>> -> "2023-01-01"
    [] d = <<2024, 1, 10>> -> "2024-01-10"
    [] d = <<2024, 6, 1>> -> "2024-06-01"
    [] OTHER -> "?"

\* str.lower() on the names and categories of the vendor rows
Lower(s) ==
  CASE s = "System CPLD" -> "system cpld"
    [] s = "CPLD" -> "cpld"
    [] s = "BIOS" -> "bios"
    [] s = "Firmware" -> "firmware"
    [] s = "Complex Programmable Logic Device" -> "complex programmable logic device"
    [] OTHER -> s

\* "cpld" in s
HasCpld(s) == s \in {"system cpld", "cpld", "cpld update"}

\* "complex programmable logic" in s
HasPhrase(s) == s \in {"complex programmable logic device"}

----------------------------------------------------------------------------
(* Vendor data: driver rows and response bodies *)

RawRow(rd, ver, name, cat, id, iden, fid, path) ==
  [ReleaseDate |-> rd, DellVer |-> ver, DriverName |-> name, Category |-> cat,
   DriverId |-> id, DriverIdEN |-> iden, FileId |-> fid, Path |-> path]

RowBios == RawRow("01 Jun 2024", "2.1", "BIOS", "BIOS", "B1", Missing, Missing, "/bios")
RowA    == RawRow("01 Jan 2023", "1.0", "System CPLD", "Firmware", "A1", Missing, "fa", "/a")
RowB    == RawRow("01 Jun 2024", "1.3", "Firmware", "CPLD", Missing, "B2", "fb", "/b")
RowC    == RawRow("10 Jan 2024", "1.2", "Complex Programmable Logic Device", Missing,
                  Missing, Missing, "fc", "/c")
RowC2   == RawRow("10 Jan 2024", "1.2b", "cpld update", "Firmware", "C2", Missing, Missing, Missing)
RowN    == RawRow("someday", "0.9", "cpld", Missing, "N1", Missing, Missing, "/n")
RowN2   == RawRow(Missing, "0.8", "System CPLD", "CPLD", Missing, Missing, Missing, Missing)
RowM    == RawRow("01 Jan 0001", "0.1", "cpld", "Firmware", "M1", Missing, Missing, "/m")

Body(hasList, list) == [hasList |-> hasList, list |-> list]

\* JSON bodies the vendor may answer with
Bodies ==
  { Body(FALSE, <<>>),
    Body(TRUE, <<RowBios>>),
    Body(TRUE, <<RowA>>),
    Body(TRUE, <<RowBios, RowB>>),
    Body(TRUE, <<RowA, RowC, RowC2>>),
    Body(TRUE, <<RowN>>),
    Body(TRUE, <<RowN2, RowM>>),
    Body(TRUE, <<RowM>>) }

NoBody == Body(FALSE, <<>>)

\* One HTTP exchange: requests.get raised, or a response with a status, a
\* Content-Type and a body that resp.json() can or cannot decode.
Http(raised, status, ctype, decodes, body) ==
  [raised |-> raised, status |-> status, ctype |-> ctype, decodes |-> decodes, body |-> body]

OkOutcomes == { Http(FALSE, 200, "application/json; charset=utf-8", TRUE, b) : b \in Bodies }

FailOutcomes ==
  { Http(TRUE, 0, "", FALSE, NoBody),                  \* network exception
    Http(FALSE, 204, "", FALSE, NoBody),               \* 204 No Content
    Http(FALSE, 500, "text/html", FALSE, NoBody),      \* unexpected status
    Http(FALSE, 200, "text/html", FALSE, NoBody),      \* 200 without JSON content-type
    Http(FALSE, 200, "application/json", FALSE, NoBody) } \* 200 JSON that does not decode

HttpOutcomes == OkOutcomes \cup FailOutcomes

\* ctype.startswith("application/json")
StartsWithJson(ctype) == ctype \in {"application/json", "application/json; charset=utf-8"}

----------------------------------------------------------------------------
(* parse_rows and is_cpld *)

\* One normalised row, from one vendor row d
NormalizeRow(d) ==
  [ReleaseDate    |-> parse_date(d.ReleaseDate),
   ReleaseDateRaw |-> Get(d.ReleaseDate),
   Version        |-> Get(d.DellVer),
   Name           |-> GetDefault(d.DriverName, ""),
   Category       |-> GetDefault(d.Category, ""),
   DriverId       |-> Or(Get(d.DriverId), Or(Get(d.DriverIdEN), Get(d.FileId))),
   DownloadUrl    |-> Get(d.Path)]

\* parse_rows(driver_json); driver_json is None or a decoded body
parse_rows(driver_json) ==
  IF driver_json = None \/ ~driver_json[1].hasList
  THEN <<>>
  ELSE [i \in 1..Len(driver_json[1].list) |-> NormalizeRow(driver_json[1].list[i])]

is_cpld(row) ==
  LET name == Lower(Or(row.Name, ""))
      cat  == Lower(Or(row.Category, ""))
  IN HasCpld(name) \/ HasCpld(cat) \/ HasPhrase(name)

----------------------------------------------------------------------------
(* find_latest_cpld: the computation made for one OS code *)

\* the sort key: r.get("ReleaseDate") or datetime.min.date()
DateKey(row) == IF row.ReleaseDate = NoDate THEN MinDate ELSE row.ReleaseDate

\* [r for r in rows if is_cpld(r)]
RECURSIVE FilterCpld(_)
FilterCpld(rows) ==
  IF rows = <<>> THEN <<>>
  ELSE IF is_cpld(Head(rows)) THEN <<Head(rows)>> \o FilterCpld(Tail(rows))
       ELSE FilterCpld(Tail(rows))

\* Insert row r in a list sorted by descending key, after every row whose key
\* is greater than or equal to r's: rows with equal keys keep their order.
RECURSIVE InsertDesc(_, _)
InsertDesc(sorted, r) ==
  IF sorted = <<>> THEN <<r>>
  ELSE IF DateGreater(DateKey(r), DateKey(Head(sorted)))
       THEN <<r>> \o sorted
       ELSE <<Head(sorted)>> \o InsertDesc(Tail(sorted), r)

\* list.sort(key=..., reverse=True): a stable sort by descending key
RECURSIVE SortDesc(_)
SortDesc(rows) ==
  IF rows = <<>> THEN <<>>
  ELSE InsertDesc(SortDesc(SubSeq(rows, 1, Len(rows) - 1)), rows[Len(rows)])

\* A faulty test: a candidate with an equal key takes over as well
ReplacesOnTie(best, candidate) ==
  best = None \/ ~DateGreater(DateKey(best[1]), DateKey(candidate))

\* A faulty test: every candidate takes over
ReplacesAlways(best, candidate) == TRUE

\* The replacement test of the loop body: the candidate takes over when
\* there is no best row yet or its key is strictly greater.
Replaces(best, candidate) ==
  best = None \/ DateGreater(DateKey(candidate), DateKey(best[1]))

\* The loop body after the API call: the new value of `best`.
SelectStep(best, data) ==
  LET cpld_rows == FilterCpld(parse_rows(data))
  IN IF cpld_rows = <<>> THEN best
     ELSE LET candidate == SortDesc(cpld_rows)[1]
          IN IF Replaces(best, candidate) THEN Some(candidate) ELSE best

\* oscodes or DEFAULT_OSCODES (None and the empty list are both falsy)
EffectiveOsCodes(oscodes) == IF oscodes = <<>> THEN DEFAULT_OSCODES ELSE oscodes

----------------------------------------------------------------------------
(* call_dell_api *)

ApiIdle ==
  [pc |-> "idle", productcode |-> "", oscode |-> "", retries |-> 0, backoff |-> 0,
   attempt |-> 0, last_exc |-> FALSE, slept |-> <<>>, result |-> None, warned |-> <<>>]

\* The success test of one attempt: HTTP 200 and a JSON content-type
IsJson200(out) == out.status = 200 /\ StartsWithJson(out.ctype)

\* A faulty delay: the same wait after every attempt
BackoffDelayFlat(backoff, attempt) == backoff

\* The argument of time.sleep after a failed attempt
BackoffDelay(backoff, attempt) == backoff * attempt

\* A faulty loop bound: the loop never runs out of attempts
LastAttemptNever(a) == FALSE

\* Is `attempt` the last value of range(1, retries + 1)?
LastAttempt(a) == a.attempt = a.retries

\* After the loop: warn if an exception was met, and return None
ApiExhausted(a) ==
  [a EXCEPT !.pc = "ret", !.result = None,
            !.warned = IF a.last_exc
                       THEN <<[productcode |-> a.productcode, oscode |-> a.oscode]>>
                       ELSE <<>>]

\* One iteration of the retry loop, given what the HTTP exchange did
ApiIter(a, out) ==
  IF ~out.raised /\ IsJson200(out) /\ out.decodes
  THEN [a EXCEPT !.pc = "ret", !.result = Some(out.body)]
  ELSE LET raised == out.raised \/ (IsJson200(out) /\ ~out.decodes)
           failed == [a EXCEPT !.last_exc = a.last_exc \/ raised,
                               !.slept = Append(a.slept, BackoffDelay(a.backoff, a.attempt)),
                               !.attempt = a.attempt + 1]
       IN IF LastAttempt(a) THEN ApiExhausted(failed) ELSE failed

\* Entry of call_dell_api, up to the first attempt
ApiBegin(productcode, oscode, retries, backoff) ==
  LET a == [pc |-> "run", productcode |-> productcode, oscode |-> oscode,
            retries |-> retries, backoff |-> backoff, attempt |-> 1,
            last_exc |-> FALSE, slept |-> <<>>, result |-> None, warned |-> <<>>]
  IN IF retries >= 1 THEN a ELSE ApiExhausted(a)

----------------------------------------------------------------------------
(* find_latest_cpld *)

SelIdle ==
  [pc |-> "idle", productcode |-> "", given |-> <<>>, oscodes |-> <<>>, i |-> 0, best |-> None]

\* A faulty loop: it stops at the first OS code that gave a row
LoopStopsWhenFound(s) == s.i < Len(s.oscodes) /\ s.best = None

\* Does the for loop go on to another OS code after the i-th?
LoopContinues(s) == s.i < Len(s.oscodes)

\* Entry of find_latest_cpld, up to the first API request
SelBegin(productcode, oscodes) ==
  LET eff == EffectiveOsCodes(oscodes)
  IN [sel |-> [pc |-> "run", productcode |-> productcode, given |-> oscodes,
               oscodes |-> eff, i |-> 1, best |-> None],
      api |-> ApiBegin(productcode, eff[1], DEFAULT_RETRIES, DEFAULT_BACKOFF)]

\* One HTTP exchange inside find_latest_cpld: the API Client's iteration and,
\* when the client returns, the rest of the loop body and the next call.
SelIter(s, a, out) ==
  LET a2 == ApiIter(a, out)
  IN IF a2.pc = "run"
     THEN [sel |-> s, api |-> a2]
     ELSE LET s2 == [s EXCEPT !.best = SelectStep(s.best, a2.result)]
          IN IF LoopContinues(s2)
             THEN [sel |-> [s2 EXCEPT !.i = s.i + 1],
                   api |-> ApiBegin(s.productcode, s.oscodes[s.i + 1],
                                    DEFAULT_RETRIES, DEFAULT_BACKOFF)]
             ELSE [sel |-> [s2 EXCEPT !.pc = "ret"], api |-> ApiIdle]

----------------------------------------------------------------------------
(* write_if_changed *)

CR == "\r"
LF == "\n"

NoFile == [exists |-> FALSE, text |-> <<>>]
FileOf(text) == [exists |-> TRUE, text |-> text]

\* What reading in text mode makes of the stored characters: universal
\* newlines, so CR LF and a lone CR both arrive as LF.
RECURSIVE UniversalNewlines(_)
UniversalNewlines(t) ==
  IF t = <<>> THEN <<>>
  ELSE IF Head(t) = CR
       THEN IF Len(t) >= 2 /\ t[2] = LF
            THEN <<LF>> \o UniversalNewlines(SubSeq(t, 3, Len(t)))
            ELSE <<LF>> \o UniversalNewlines(Tail(t))
       ELSE <<Head(t)>> \o UniversalNewlines(Tail(t))

\* path.read_text(encoding="utf-8")
read_text(f) == UniversalNewlines(f.text)

\* hashlib.sha256(s.encode()).hexdigest(): taken as collision-free
Sha256(t) == <<"sha256", t>>

\* The comparison that decides the write
Differs(old, content) == Sha256(old) # Sha256(content)

\* write_if_changed(path, content) on the file f: the file afterwards, the
\* returned value, and whether path.write_text ran
write_if_changed(f, content) ==
  LET old == IF f.exists THEN read_text(f) ELSE <<>>
  IN IF Differs(old, content)
     THEN [file |-> FileOf(content), changed |-> TRUE, wrote |-> TRUE]
     ELSE [file |-> f, changed |-> FALSE, wrote |-> FALSE]

----------------------------------------------------------------------------
(* main *)

MainIdle ==
  [pc |-> "idle", servers |-> <<>>, i |-> 0, generated_at |-> 0, data |-> <<>>,
   changed |-> FALSE]

\* A faulty lookup: an absent product code is taken as a value
HasProductCodeAlways(s) == TRUE

\* s["productcode"] raises KeyError when the entry has no such key
HasProductCode(s) == s.productcode # Missing

\* A faulty value: null whatever the selector returned
ResultValueNull(latest) == None

\* The value stored for a product: the reduced record when `latest` is
\* truthy, else None.  In release_date, NoDate stands for the empty string.
ResultValue(latest) ==
  IF latest # None
  THEN Some([name         |-> latest[1].Name,
             version      |-> latest[1].Version,
             release_date |-> latest[1].ReleaseDate,
             driver_id    |-> latest[1].DriverId,
             download_url |-> latest[1].DownloadUrl,
             category     |-> latest[1].Category])
  ELSE None

\* result["data"][k] = v on an insertion-ordered dict: a new key goes last,
\* an existing key keeps its place and takes the new value
DictSet(d, k, v) ==
  IF \E j \in 1..Len(d) : d[j].key = k
  THEN [j \in 1..Len(d) |-> IF d[j].key = k THEN [key |-> k, value |-> v] ELSE d[j]]
  ELSE Append(d, [key |-> k, value |-> v])

\* JSON text of a string or None
JStr(s) == IF s = NoneVal THEN <<"null">> ELSE <<"\"", s, "\"">>

\* JSON text of one value of the data mapping
JValue(v) ==
  IF v = None THEN <<"null">>
  ELSE <<"{", LF>>
       \o <<"name:">> \o JStr(v[1].name) \o <<",", LF>>
       \o <<"version:">> \o JStr(v[1].version) \o <<",", LF>>
       \o <<"release_date:">>
       \o JStr(IF v[1].release_date = NoDate THEN "" ELSE IsoFormat(v[1].release_date))
       \o <<",", LF>>
       \o <<"driver_id:">> \o JStr(v[1].driver_id) \o <<",", LF>>
       \o <<"download_url:">> \o JStr(v[1].download_url) \o <<",", LF>>
       \o <<"category:">> \o JStr(v[1].category) \o <<LF, "}">>

RECURSIVE JData(_)
JData(d) ==
  IF d = <<>> THEN <<>>
  ELSE JStr(Head(d).key) \o <<":">> \o JValue(Head(d).value)
       \o (IF Len(d) > 1 THEN <<",">> ELSE <<>>) \o <<LF>> \o JData(Tail(d))

\* json.dumps(result, indent=2, ensure_ascii=False, default=str)
Dumps(m) ==
  <<"{", LF>>
  \o <<"generated_at:">> \o JStr(ToString(m.generated_at)) \o <<",", LF>>
  \o <<"source:">> \o JStr("dell fetchdriversbyproduct") \o <<",", LF>>
  \o <<"country:">> \o JStr(COUNTRY) \o <<",", LF>>
  \o <<"data:", "{", LF>> \o JData(m.data) \o <<"}", LF, "}">>

\* The head of the for loop at entry m.i, and what follows when the list is
\* used up: the next find_latest_cpld call, the KeyError, or the snapshot write.
MainLoop(m, f) ==
  IF m.i > Len(m.servers)
  THEN LET json_str == Dumps(m)
           w == write_if_changed(f, json_str)
       IN [main |-> [m EXCEPT !.pc = "done", !.changed = w.changed],
           sel |-> SelIdle, api |-> ApiIdle, file |-> w.file,
           wcall |-> <<[content |-> json_str, before |-> f, after |-> w.file,
                        changed |-> w.changed, wrote |-> w.wrote]>>]
  ELSE IF ~HasProductCode(m.servers[m.i])
  THEN [main |-> [m EXCEPT !.pc = "fatal"], sel |-> SelIdle, api |-> ApiIdle,
        file |-> f, wcall |-> <<>>]
  ELSE LET b == SelBegin(m.servers[m.i].productcode, m.servers[m.i].oscodes)
       IN [main |-> m, sel |-> b.sel, api |-> b.api, file |-> f, wcall |-> <<>>]

\* Entry of main, up to the first HTTP request (or the end of the run)
MainBegin(servers, now, f) ==
  MainLoop([pc |-> "run", servers |-> servers, i |-> 1, generated_at |-> now,
            data |-> <<>>, changed |-> FALSE], f)

\* One HTTP exchange inside main: the selector's step and, when the selector
\* returns, the assignment into result["data"] and the next loop head.
MainIter(m, s, a, f, out) ==
  LET r == SelIter(s, a, out)
  IN IF r.sel.pc = "run"
     THEN [main |-> m, sel |-> r.sel, api |-> r.api, file |-> f, wcall |-> <<>>]
     ELSE MainLoop([m EXCEPT !.data = DictSet(m.data, s.productcode, ResultValue(r.sel.best)),
                             !.i = m.i + 1], f)

----------------------------------------------------------------------------
(* Inputs *)

ProductCodes == {"R750", "R650"}
Backoffs == {1, 2, 3}
OsCodeLists == {<<>>, <<"NAA">>, <<"W2022", "NAA">>, <<"WS16", "W2019", "WS16">>}

\* All sequences over S of length at most n
SeqsUpTo(S, n) == UNION {[1..k -> S] : k \in 0..n}

\* Configuration entries: the product code may be absent, and so may the
\* list of OS codes (an absent list and an empty one are both <<>>)
ConfigEntries == [productcode : ProductCodes \cup {Missing}, oscodes : {<<>>, <<"W2022">>}]
Configs == SeqsUpTo(ConfigEntries, MaxServers)

Chars == {"a", CR, LF}
Contents == SeqsUpTo(Chars, MaxLen)

\* The snapshot file as an earlier run left it
OldSnapshot == FileOf(<<"{", LF, "}">>)

Idle ==
  /\ api = ApiIdle /\ outcomes = <<>>
  /\ sel = SelIdle /\ seen = <<>> /\ lastData = None /\ queried = <<>>
  /\ main = MainIdle /\ entries = <<>>
  /\ wcalls = <<>> /\ clock = 0 /\ runs = <<>>

----------------------------------------------------------------------------
(* The API Client called on its own *)

ApiCall ==
  /\ api.pc = "idle"
  /\ \E p \in ProductCodes, o \in {"NAA", "W2022"}, n \in 0..MaxRetries, b \in Backoffs :
       api' = ApiBegin(p, o, n, b)
  /\ outcomes' = <<>>
  /\ UNCHANGED <<sel, seen, lastData, queried, main, entries, file, wcalls, clock, runs>>

ApiRequest ==
  /\ api.pc = "run"
  /\ \E out \in HttpOutcomes :
       /\ api' = ApiIter(api, out)
       /\ outcomes' = Append(outcomes, out)
  /\ UNCHANGED <<sel, seen, lastData, queried, main, entries, file, wcalls, clock, runs>>

InitApi == Idle /\ file = NoFile
NextApi == ApiCall \/ ApiRequest
SpecApi == InitApi /\ [][NextApi]_vars

----------------------------------------------------------------------------
(* The Latest Selector called on its own *)

\* The CPLD rows of one API result, tagged with the OS code's position
Tagged(i, result) ==
  LET rows == FilterCpld(parse_rows(result))
  IN [k \in 1..Len(rows) |-> [os |-> i, idx |-> k, row |-> rows[k]]]

SelCall ==
  /\ sel.pc = "idle"
  /\ \E p \in ProductCodes, l \in OsCodeLists :
       LET b == SelBegin(p, l)
       IN /\ sel' = b.sel
          /\ api' = b.api
          /\ queried' = <<b.api.oscode>>
  /\ seen' = <<>>
  /\ lastData' = None
  /\ UNCHANGED <<outcomes, main, entries, file, wcalls, clock, runs>>

SelRequest ==
  /\ sel.pc = "run"
  /\ \E out \in HttpOutcomes :
       LET a2 == ApiIter(api, out)
           r == SelIter(sel, api, out)
       IN /\ sel' = r.sel
          /\ api' = r.api
          /\ IF a2.pc = "ret"
             THEN /\ seen' = seen \o Tagged(sel.i, a2.result)
                  /\ lastData' = a2.result
                  /\ queried' = IF r.api.pc = "run"
                                THEN Append(queried, r.api.oscode) ELSE queried
             ELSE UNCHANGED <<seen, lastData, queried>>
  /\ UNCHANGED <<outcomes, main, entries, file, wcalls, clock, runs>>

InitSel == Idle /\ file = NoFile
NextSel == SelCall \/ SelRequest
SpecSel == InitSel /\ [][NextSel]_vars

----------------------------------------------------------------------------
(* The Snapshot Writer called on its own *)

WriterCall ==
  /\ Len(wcalls) < MaxCalls
  /\ \E c \in Contents :
       LET w == write_if_changed(file, c)
       IN /\ file' = w.file
          /\ wcalls' = Append(wcalls, [content |-> c, before |-> file, after |-> w.file,
                                       changed |-> w.changed, wrote |-> w.wrote])
  /\ UNCHANGED <<api, outcomes, sel, seen, lastData, queried, main, entries, clock, runs>>

InitWriter == Idle /\ file \in {NoFile} \cup {FileOf(c) : c \in Contents}
NextWriter == WriterCall
SpecWriter == InitWriter /\ [][NextWriter]_vars

----------------------------------------------------------------------------
(* main run once *)

\* The outcomes drawn for the lookups of main
MainOutcomes ==
  FailOutcomes \cup
  { Http(FALSE, 200, "application/json; charset=utf-8", TRUE, b) :
      b \in {Body(TRUE, <<RowBios>>), Body(TRUE, <<RowBios, RowB>>),
             Body(TRUE, <<RowA, RowC, RowC2>>)} }

\* The history record opened when main begins a configuration entry:
\* `requests` counts the HTTP requests made so far for the (product code,
\* OS code) pair now being looked up
FreshEntry(productcode) ==
  [productcode |-> productcode, yield |-> FALSE, allFailed |-> TRUE, requests |-> 0,
   done |-> FALSE, selected |-> None]

\* The entries history after one HTTP exchange that took the program from
\* (sel, api) to the world w
EntriesAfter(out, w) ==
  LET a2 == ApiIter(api, out)
      r == SelIter(sel, api, out)
      n == Len(entries)
      e == entries[n]
      e1 == [e EXCEPT !.requests = e.requests + 1]
      e2 == IF a2.pc = "ret"
            THEN [e1 EXCEPT !.yield = e.yield \/ Tagged(sel.i, a2.result) # <<>>,
                            !.allFailed = e.allFailed /\ a2.result = None,
                            !.requests = 0]
            ELSE e1
      e3 == IF r.sel.pc = "ret"
            THEN [e2 EXCEPT !.done = TRUE, !.selected = r.sel.best]
            ELSE e2
      closed == [entries EXCEPT ![n] = e3]
  IN IF r.sel.pc = "ret" /\ w.sel.pc = "run"
     THEN Append(closed, FreshEntry(w.sel.productcode))
     ELSE closed

MainCall ==
  /\ main.pc = "idle"
  /\ \E servers \in Configs :
       LET w == MainBegin(servers, clock, file)
       IN /\ main' = w.main /\ sel' = w.sel /\ api' = w.api /\ file' = w.file
          /\ wcalls' = wcalls \o w.wcall
          /\ entries' = IF w.sel.pc = "run" THEN <<FreshEntry(w.sel.productcode)>> ELSE <<>>
  /\ runs' = <<[before |-> file, log |-> <<>>]>>
  /\ UNCHANGED <<outcomes, seen, lastData, queried, clock>>

MainRequest ==
  /\ main.pc = "run"
  /\ \E out \in MainOutcomes :
       LET w == MainIter(main, sel, api, file, out)
       IN /\ main' = w.main /\ sel' = w.sel /\ api' = w.api /\ file' = w.file
          /\ wcalls' = wcalls \o w.wcall
          /\ entries' = EntriesAfter(out, w)
  /\ UNCHANGED <<outcomes, seen, lastData, queried, clock, runs>>

InitMain == Idle /\ file = OldSnapshot
NextMain == MainCall \/ MainRequest
SpecMain == InitMain /\ [][NextMain]_vars

----------------------------------------------------------------------------
(* main run twice over one configuration *)

RerunConfigs == {<<e>> : e \in [productcode : ProductCodes, oscodes : {<<"W2022">>}]}

RerunOutcomes ==
  { Http(TRUE, 0, "", FALSE, NoBody),
    Http(FALSE, 204, "", FALSE, NoBody),
    Http(FALSE, 200, "application/json; charset=utf-8", TRUE, Body(TRUE, <<RowBios, RowB>>)),
    Http(FALSE, 200, "application/json; charset=utf-8", TRUE, Body(TRUE, <<RowBios>>)) }

\* The history record of one run, once it has reached the world w
RunRecord(w, before, log) ==
  [servers |-> w.main.servers, before |-> before, log |-> log, pc |-> w.main.pc,
   changed |-> w.main.changed, after |-> w.file]

RerunCall ==
  /\ main.pc \in {"idle", "done"}
  /\ Len(runs) < 2
  /\ \E servers \in RerunConfigs :
       /\ main.pc = "done" => servers = main.servers
       /\ LET w == MainBegin(servers, clock, file)
          IN /\ main' = w.main /\ sel' = w.sel /\ api' = w.api /\ file' = w.file
             /\ wcalls' = wcalls \o w.wcall
             /\ runs' = Append(runs, RunRecord(w, file, <<>>))
  /\ UNCHANGED <<outcomes, seen, lastData, queried, entries, clock>>

RerunRequest ==
  /\ main.pc = "run"
  /\ \E out \in RerunOutcomes :
       LET w == MainIter(main, sel, api, file, out)
           n == Len(runs)
       IN /\ main' = w.main /\ sel' = w.sel /\ api' = w.api /\ file' = w.file
          /\ wcalls' = wcalls \o w.wcall
          /\ runs' = [runs EXCEPT ![n] = RunRecord(w, runs[n].before, Append(runs[n].log, out))]
  /\ UNCHANGED <<outcomes, seen, lastData, queried, entries, clock>>

\* Time passes between two runs
Tick ==
  /\ main.pc \in {"idle", "done"}
  /\ clock < MaxClock
  /\ clock' = clock + 1
  /\ UNCHANGED <<api, outcomes, sel, seen, lastData, queried, main, entries, file, wcalls, runs>>

InitRerun == Idle /\ file = NoFile
NextRerun == RerunCall \/ RerunRequest \/ Tick
SpecRerun == InitRerun /\ [][NextRerun]_vars

----------------------------------------------------------------------------
(* Claims about the API Client, under SpecApi *)

\* An attempt succeeds when it answers HTTP 200 with a JSON content-type
\* and a body that decodes
Succeeded(out) ==
  ~out.raised /\ out.status = 200 /\ StartsWithJson(out.ctype) /\ out.decodes

Returned204(out) == ~out.raised /\ out.status = 204

\* C1: whenever call_dell_api has used up all its attempts (at least one)
\* without a success, it has emitted a warning naming the product code and
\* the OS code and it returns None, whatever the kinds of the failures.
C1_WarnsOnExhaustion ==
  (/\ api.pc = "ret"
   /\ api.retries >= 1
   /\ Len(outcomes) = api.retries
   /\ \A k \in 1..Len(outcomes) : ~Succeeded(outcomes[k]))
  => /\ api.result = None
     /\ api.warned = <<[productcode |-> api.productcode, oscode |-> api.oscode]>>

\* C2: attempts are numbered 1..retries; the k-th failed attempt is followed
\* by one wait of backoff * k; the first success returns the decoded JSON at
\* once, with no further request or wait; for 204, 204, 200+JSON under the
\* defaults that is three requests and the waits 2 then 4.
C2_LinearBackoff ==
  LET n == Len(outcomes)
      won == n > 0 /\ Succeeded(outcomes[n])
      fails == IF won THEN n - 1 ELSE n
  IN /\ n <= api.retries
     /\ \A k \in 1..(n - 1) : ~Succeeded(outcomes[k])
     /\ api.slept = [k \in 1..fails |-> api.backoff * k]
     /\ api.pc = "run" => api.attempt = n + 1 /\ api.attempt <= api.retries
     /\ won => api.pc = "ret" /\ api.result = Some(outcomes[n].body)
     /\ (/\ api.retries = 3 /\ api.backoff = 2 /\ n = 3
         /\ Returned204(outcomes[1]) /\ Returned204(outcomes[2]) /\ won)
        => api.slept = <<2, 4>> /\ api.result = Some(outcomes[3].body)

\* C2 witness: 204, 204, then 200+JSON under the defaults, and the call returned
C2_Witness ==
  /\ api.pc = "ret" /\ api.retries = 3 /\ api.backoff = 2
  /\ Len(outcomes) = 3
  /\ Returned204(outcomes[1]) /\ Returned204(outcomes[2]) /\ Succeeded(outcomes[3])
  /\ api.result # None

----------------------------------------------------------------------------
(* Claims about the Latest Selector, under SpecSel *)

\* The seen row that the claim expects back: the first with a maximal key
IsFirstMax(j) ==
  /\ \A k \in 1..Len(seen) : ~DateGreater(DateKey(seen[k].row), DateKey(seen[j].row))
  /\ \A k \in 1..(j - 1) : DateKey(seen[k].row) # DateKey(seen[j].row)

\* find_latest_cpld returns a row of maximal date key, the first such row in
\* (OS code, row) order, and None when no OS code gave a CPLD row
ReturnsFirstMax ==
  sel.pc = "ret" =>
    /\ seen = <<>> => sel.best = None
    /\ seen # <<>> =>
         /\ sel.best # None
         /\ \E j \in 1..Len(seen) : IsFirstMax(j) /\ sel.best[1] = seen[j].row

\* C3 as stated: the first row of maximal date key is returned, and a row
\* with a real date always outranks a row without one.
C3_AsStated ==
  /\ ReturnsFirstMax
  /\ (sel.pc = "ret" /\ \E k \in 1..Len(seen) : seen[k].row.ReleaseDate # NoDate)
     => sel.best[1].ReleaseDate # NoDate

\* C3 as amended: the first row of maximal date key is returned, and a row
\* with a real date later than the minimum date outranks a row without one.
C3_FirstMaxReturned ==
  /\ ReturnsFirstMax
  /\ (sel.pc = "ret" /\ \E k \in 1..Len(seen) :
         /\ seen[k].row.ReleaseDate # NoDate
         /\ DateGreater(seen[k].row.ReleaseDate, MinDate))
     => sel.best[1].ReleaseDate # NoDate

\* C3 witness: the selector returned, a later OS code gave a different row
\* with the same maximal key as the returned row of an earlier OS code
C3_Witness ==
  /\ sel.pc = "ret"
  /\ \E j, k \in 1..Len(seen) :
       /\ seen[j].os < seen[k].os
       /\ IsFirstMax(j)
       /\ DateKey(seen[k].row) = DateKey(seen[j].row)
       /\ seen[k].row # seen[j].row
       /\ sel.best = Some(seen[j].row)

\* C4: the API Client is called once per OS code, in list order, whatever
\* the earlier responses were; with no OS codes given, the five defaults.
C4_EveryOsCodeQueried ==
  LET want == IF sel.given = <<>>
              THEN <<"NAA", "W2022", "W2019", "WS16", "WS12R2">>
              ELSE sel.given
  IN /\ sel.pc = "run" =>
          /\ Len(queried) \in 1..Len(want)
          /\ queried = SubSeq(want, 1, Len(queried))
          /\ api.pc = "run" /\ api.oscode = want[Len(queried)]
     /\ sel.pc = "ret" => queried = want

\* C4 witness: no OS codes were given, the first default code gave a CPLD
\* row, a later one failed, and all five were queried
C4_Witness ==
  /\ sel.pc = "ret" /\ sel.given = <<>>
  /\ Len(queried) = 5
  /\ seen # <<>> /\ seen[1].os = 1
  /\ lastData = None

\* C10: the best-so-far row never regresses: once set it is never unset,
\* its date key never decreases, and an OS code whose lookup failed or gave
\* no CPLD row leaves it as it was.
C10_BestNeverRegresses ==
  [][ sel.pc = "run" =>
        /\ sel.best # None =>
             /\ sel'.best # None
             /\ ~DateGreater(DateKey(sel.best[1]), DateKey(sel'.best[1]))
        /\ (seen' = seen \/ lastData' = None) => sel'.best = sel.best ]_vars

\* C10 witness: a best row is held, the lookup after it failed, and the loop
\* is still running
C10_Witness ==
  /\ sel.pc = "run" /\ sel.i >= 3
  /\ sel.best # None
  /\ lastData = None
  /\ seen # <<>> /\ seen[Len(seen)].os < sel.i - 1

----------------------------------------------------------------------------
(* Claims about the Snapshot Writer, under SpecRerun and SpecWriter *)

\* C5: when main runs twice over the same configuration and the vendor
\* gives the same responses in both runs, the second run does not write the
\* file: changed is false and the file is as the first run left it.
C5_SecondRunDoesNotWrite ==
  (/\ Len(runs) = 2
   /\ runs[1].pc = "done" /\ runs[2].pc = "done"
   /\ runs[2].servers = runs[1].servers
   /\ runs[2].log = runs[1].log)
  => /\ ~runs[2].changed
     /\ ~wcalls[2].wrote
     /\ runs[2].after = runs[1].after

\* C6: on a path with no file or with other content, two successive calls
\* with one content make exactly one write: the first writes and returns
\* true, the second returns false and leaves the file; every call returns
\* true exactly when it wrote, and afterwards the file holds the content.
C6_WriteOnce ==
  /\ \A k \in 1..Len(wcalls) :
       /\ wcalls[k].changed = wcalls[k].wrote
       /\ wcalls[k].after = FileOf(wcalls[k].content)
  /\ \A k \in 1..(Len(wcalls) - 1) :
       (/\ wcalls[k + 1].content = wcalls[k].content
        /\ wcalls[k].before # FileOf(wcalls[k].content))
       => /\ wcalls[k].wrote /\ wcalls[k].changed
          /\ ~wcalls[k + 1].wrote /\ ~wcalls[k + 1].changed
          /\ wcalls[k + 1].after = wcalls[k].after

----------------------------------------------------------------------------
(* Claims about main, under SpecMain *)

\* A sequence without its repeated elements: first occurrences, in order
RECURSIVE FirstOccurrences(_)
FirstOccurrences(q) ==
  IF q = <<>> THEN <<>>
  ELSE LET front == FirstOccurrences(SubSeq(q, 1, Len(q) - 1))
           x == q[Len(q)]
       IN IF \E j \in 1..Len(front) : front[j] = x THEN front ELSE Append(front, x)

ConfiguredCodes == [j \in 1..Len(main.servers) |-> main.servers[j].productcode]

\* The value is the reduced record of the row
BuiltFrom(value, row) ==
  /\ value # None
  /\ value[1].name = row.Name
  /\ value[1].version = row.Version
  /\ value[1].release_date = row.ReleaseDate
  /\ value[1].driver_id = row.DriverId
  /\ value[1].download_url = row.DownloadUrl
  /\ value[1].category = row.Category

\* The keys of the data mapping are the configured product codes, in the
\* order in which the entries were processed, each once
KeysAreConfiguredCodes ==
  [j \in 1..Len(main.data) |-> main.data[j].key] = FirstOccurrences(ConfiguredCodes)

\* The last history record of product code k
LastEntryOf(k) ==
  entries[CHOOSE j \in 1..Len(entries) :
            /\ entries[j].productcode = k
            /\ \A h \in (j + 1)..Len(entries) : entries[h].productcode # k]

\* C7 as stated: the keys are the configured product codes in processing
\* order, one value each; the value is null exactly when no queried OS code
\* yielded a CPLD row for the product, else a record of the selected row.
C7_AsStated ==
  main.pc = "done" =>
    /\ KeysAreConfiguredCodes
    /\ \A j \in 1..Len(main.data) :
         LET k == main.data[j].key
             v == main.data[j].value
         IN /\ v = None <=> \A h \in 1..Len(entries) :
                              entries[h].productcode = k => ~entries[h].yield
            /\ v # None => \E h \in 1..Len(entries) :
                             /\ entries[h].productcode = k
                             /\ entries[h].selected # None
                             /\ BuiltFrom(v, entries[h].selected[1])

\* C7 as amended: the keys are the configured product codes in processing
\* order, one value each; the value is null exactly when no OS code queried
\* for the last entry of that product code yielded a CPLD row, else a record
\* of the row selected for that last entry.
C7_KeysAndValues ==
  main.pc = "done" =>
    /\ KeysAreConfiguredCodes
    /\ \A j \in 1..Len(main.data) :
         LET v == main.data[j].value
             e == LastEntryOf(main.data[j].key)
         IN /\ v = None <=> ~e.yield
            /\ v # None => e.selected # None /\ BuiltFrom(v, e.selected[1])

\* C7 witness: two product codes, the first with a record and the second,
\* whose lookups all failed, with null
C7_Witness ==
  /\ main.pc = "done"
  /\ Len(main.data) = 2
  /\ main.data[1].value # None
  /\ main.data[2].value = None
  /\ entries[2].allFailed

AllHaveCode == \A j \in 1..Len(main.servers) : main.servers[j].productcode # Missing

\* What holds throughout a run whose entries all have a product code
RunStaysSound ==
  (main.pc # "idle" /\ AllHaveCode) =>
    /\ main.pc \in {"run", "done"}
    /\ main.pc = "run" =>
         /\ wcalls = <<>>
         /\ entries # <<>>
         /\ entries[Len(entries)].requests < DEFAULT_RETRIES
    /\ main.pc = "done" =>
         /\ Len(wcalls) = 1
         /\ Len(entries) = Len(main.servers)
         /\ \A j \in 1..Len(entries) : entries[j].done
         /\ \A j \in 1..Len(main.data) :
              (\A h \in 1..Len(entries) :
                 entries[h].productcode = main.data[j].key => entries[h].allFailed)
              => main.data[j].value = None

\* While main runs it stands at an HTTP request of some attempt for some
\* OS code of the current entry
AtRequest ==
  main.pc = "run" =>
    /\ sel.pc = "run" /\ sel.i \in 1..Len(sel.oscodes)
    /\ api.pc = "run" /\ api.attempt \in 1..DEFAULT_RETRIES

\* The HTTP requests the entries from the j-th on can take at most
RECURSIVE RequestsOfEntries(_)
RequestsOfEntries(j) ==
  IF j > Len(main.servers) THEN 0
  ELSE DEFAULT_RETRIES * Len(IF main.servers[j].oscodes = <<>>
                             THEN <<"NAA", "W2022", "W2019", "WS16", "WS12R2">>
                             ELSE main.servers[j].oscodes)
       + RequestsOfEntries(j + 1)

\* The HTTP requests the run can still make
RequestsLeft ==
  IF main.pc # "run" THEN 0
  ELSE (DEFAULT_RETRIES - api.attempt + 1)
       + DEFAULT_RETRIES * (Len(sel.oscodes) - sel.i)
       + RequestsOfEntries(main.i + 1)

C9_FatalOnMissingCode ==
  (main.pc # "idle" /\ ~AllHaveCode) =>
    LET first == CHOOSE j \in 1..Len(main.servers) :
                   /\ main.servers[j].productcode = Missing
                   /\ \A h \in 1..(j - 1) : main.servers[h].productcode # Missing
    IN /\ main.pc \in {"run", "fatal"}
       /\ main.pc = "run" => main.i < first
       /\ Len(entries) <= first - 1
       /\ wcalls = <<>>
       /\ file = runs[1].before
       /\ main.pc = "fatal" =>
            /\ main.i = first
            /\ Len(entries) = first - 1
            /\ \A j \in 1..Len(entries) : entries[j].done

\* C9 witness: the second entry lacks its product code, the first was
\* queried and gave a CPLD row, and main has ended in the fatal error
C9_Witness ==
  /\ main.pc = "fatal"
  /\ main.i = 2
  /\ Len(entries) = 1 /\ entries[1].done /\ entries[1].yield

====
